---- MODULE Spec2Model ----
(***************************************************************************)
(* Clement interpolation (fenicstools/ClementInterpolation.py).            *)
(*                                                                         *)
(* The engine ClementInterpolant is modelled as a state machine: the       *)
(* caller holds an expression `expr`, constructs an engine `ci` from it,   *)
(* invokes it and asks for its timings; clement_interpolate is the         *)
(* one-shot facade.  The workers _analyze_expr, _analyze_shape,            *)
(* _extract_mesh and _construct_averaging_operator are operators.          *)
(*                                                                         *)
(* Numbers are exact rationals n/d extended with the IEEE special values   *)
(* the code's float arithmetic produces: d = 0 encodes +inf (1/0),         *)
(* -inf (-1/0) and NaN (0/0).  Rounding is not modelled.                   *)
(***************************************************************************)
EXTENDS Integers, Sequences, FiniteSets, TLC

VARIABLES expr, pc, ci, ret

vars == <<expr, pc, ci, ret>>

\* ---------------------------------------------------------------- bounds
MaxCells == 3

MaxVol == 1

MaxK == 1

MaxDim == 2

MaxRank == 3

MaxLeaves == 2

MaxCalls == 2

\* Wall-clock durations time.time() - t0 can measure, in arbitrary units.
Durations == {1, 2}

\* ------------------------------------------------------------ arithmetic
Sign(n) == IF n > 0 THEN 1 ELSE IF n < 0 THEN -1 ELSE 0

Abs(n) == IF n < 0 THEN -n ELSE n

RECURSIVE GCD(_, _)
GCD(a, b) == IF b = 0 THEN a ELSE GCD(b, a % b)

\* The value n/d (d >= 0) in lowest terms; n/0 is +inf, -inf or NaN.
Norm(n, d) ==
    IF d = 0 THEN [n |-> Sign(n), d |-> 0]
    ELSE LET g == GCD(Abs(n), d) IN [n |-> n \div g, d |-> d \div g]

Num(k) == [n |-> k, d |-> 1]

Zero == Num(0)

One == Num(1)

NaN == [n |-> 0, d |-> 0]

IsFinite(x) == x.d # 0

\* Float product: inf * 0 = NaN, NaN * x = NaN.
Mul(x, y) == Norm(x.n * y.n, x.d * y.d)

\* Float sum: inf + inf = inf, inf - inf = NaN, NaN + x = NaN.
Add(x, y) ==
    IF x.d = 0 /\ y.d = 0 THEN (IF x.n = y.n THEN x ELSE NaN)
    ELSE Norm(x.n * y.d + y.n * x.d, x.d * y.d)

\* Float 1./x: 1/0 = inf, 1/inf = 0, 1/NaN = NaN (no exception raised).
Reciprocal(x) ==
    IF x.n < 0 THEN [n |-> -x.d, d |-> -x.n] ELSE [n |-> x.d, d |-> x.n]

\* PETSc's Vec reciprocal: a zero entry is left unchanged.
PetscReciprocal(x) == IF x = Zero THEN x ELSE Reciprocal(x)

\* Sum of f[j] for j in the finite set of integers S, in increasing order.
RECURSIVE SumOver(_, _)
SumOver(f, S) ==
    IF S = {} THEN Zero
    ELSE LET m == CHOOSE j \in S : \A l \in S : l <= j
         IN Add(SumOver(f, S \ {m}), f[m])

\* ------------------------------------------------------------------ mesh
\* A simplicial mesh of topological dimension tdim: cell j has the vertices
\* j .. j + tdim (an interval mesh for tdim = 1, a triangle strip for
\* tdim = 2) and the volume vol[j] >= 0 (0: a degenerate cell).
Mesh(id, tdim, vol) == [id |-> id, tdim |-> tdim, vol |-> vol]

Cells(mesh) == 1 .. Len(mesh.vol)

Vertices(mesh) == 1 .. (Len(mesh.vol) + mesh.tdim)

CellVertices(mesh, j) == j .. (j + mesh.tdim)

\* Cells on which the CG1 basis function of vertex i is supported.
Patch(mesh, i) == {j \in Cells(mesh) : i \in CellVertices(mesh, j)}

\* ------------------------------------------------------------- terminals
\* Classes of terminal operands and their base class (TopClass: none).
TopClass == "object"

Superclass(kind) ==
    IF kind = "dolfin.Argument" THEN "ufl.Argument"
    ELSE IF kind \in {"dolfin.Function", "dolfin.Constant"} THEN "ufl.Coefficient"
    ELSE TopClass

black_listed ==
    {"ufl.Argument", "ufl.MaxCellEdgeLength", "ufl.MaxFacetEdgeLength",
     "ufl.MinCellEdgeLength", "ufl.MinFacetEdgeLength",
     "ufl.FacetArea", "ufl.FacetNormal",
     "ufl.CellNormal", "ufl.CellVolume"}

\* Mutant of isinstance: the exact class only, as type(t) in classes would be.
isinstance_exact(t, classes) == t.kind \in classes

\* isinstance(t, classes): the class of t or its base class is in classes.
isinstance(t, classes) == t.kind \in classes \/ Superclass(t.kind) \in classes

NoMesh == Mesh(0, 0, <<>>)

\* A terminal operand: its class, its name, and the mesh of its function
\* space (NoMesh for a class without function_space()).
Terminal(kind, name, mesh) == [kind |-> kind, name |-> name, mesh |-> mesh]

\* t.function_space() exists (otherwise the call raises AttributeError).
HasFunctionSpace(t) == t.kind \in {"dolfin.Function", "dolfin.Argument"}

\* ----------------------------------------------------------- expressions
\* An expression: whether it is an integrated ufl.Form, its ufl_shape, the
\* terminals at its leaves in traversal order (with repetitions), and the
\* field it denotes: component idx has the value k + s*(j-1) + offset(idx)
\* on cell j.
Expression(is_form, shape, leaves, k, s) ==
    [is_form |-> is_form, ufl_shape |-> shape, leaves |-> leaves, k |-> k, s |-> s]

RECURSIVE Unique(_, _)
Unique(seq, seen) ==
    IF seq = <<>> THEN <<>>
    ELSE IF Head(seq) \in seen THEN Unique(Tail(seq), seen)
    ELSE <<Head(seq)>> \o Unique(Tail(seq), seen \cup {Head(seq)})

\* ufl.algorithms.traverse_unique_terminals: every terminal once, in order.
traverse_unique_terminals(e) == Unique(e.leaves, {})

IndexOffset(idx) ==
    IF Len(idx) = 0 THEN 0
    ELSE IF Len(idx) = 1 THEN idx[1] - 1
    ELSE 10 * (idx[1] - 1) + (idx[2] - 1)

\* Value on cell j of the component expr[idx] (expr itself for idx = <<>>).
CellValue(e, idx, j) == e.k + e.s * (j - 1) + IndexOffset(idx)

\* ---------------------------------------------------------------- workers
Raise(msg) == [raised |-> TRUE, exc |-> "ValueError", msg |-> msg]

Return(v) == [raised |-> FALSE, value |-> v]

analyze_expr(e) ==
    IF e.is_form THEN Raise("Expression is a form")
    ELSE LET terminals == traverse_unique_terminals(e)
         IN IF \E n \in 1 .. Len(terminals) : isinstance(terminals[n], black_listed)
            THEN Raise("Invalid expression (e.g. has Arguments as operand)")
            ELSE Return(terminals)

\* Mutant of analyze_shape: the rank is checked, the squareness is not.
analyze_shape_rank_only(shape) ==
    LET is_valid == Len(shape) < 3
    IN IF ~is_valid
       THEN Raise("Interpolating Expr does not result rank-0, 1, 2 function")
       ELSE Return("None")

analyze_shape(shape) ==
    LET is_valid == Len(shape) < 3
                    /\ (IF Len(shape) = 2 THEN shape[1] = shape[2] ELSE TRUE)
    IN IF ~is_valid
       THEN Raise("Interpolating Expr does not result rank-0, 1, 2 function")
       ELSE Return("None")

\* The (mesh.id(), mesh) pairs of the terminals that have a function space.
RECURSIVE MeshPairs(_)
MeshPairs(terminals) ==
    IF terminals = <<>> THEN <<>>
    ELSE LET t == Head(terminals)
         IN (IF HasFunctionSpace(t) THEN <<<<t.mesh.id, t.mesh>>>> ELSE <<>>)
            \o MeshPairs(Tail(terminals))

\* Mutant of extract_mesh: the pairs are counted, not the distinct ids.
extract_mesh_by_count(terminals) ==
    LET pairs == MeshPairs(terminals)
    IN IF Len(pairs) = 1 THEN Return(pairs[Len(pairs)][2])
       ELSE Raise("Failed to extract mesh: Operands with no or different meshes")

extract_mesh(terminals) ==
    LET pairs == MeshPairs(terminals)
        ids == {pairs[n][1] : n \in 1 .. Len(pairs)}
    IN IF Cardinality(ids) = 1 THEN Return(pairs[Len(pairs)][2])
       ELSE Raise("Failed to extract mesh: Operands with no or different meshes")

\* ------------------------------------------------------- function spaces
FunctionSpace(mesh, family, degree) ==
    [mesh |-> mesh, family |-> family, degree |-> degree, shape |-> <<>>]

VectorFunctionSpace(mesh, family, degree, dim) ==
    [mesh |-> mesh, family |-> family, degree |-> degree, shape |-> <<dim>>]

TensorFunctionSpace(mesh, family, degree, shape) ==
    [mesh |-> mesh, family |-> family, degree |-> degree, shape |-> shape]

\* ----------------------------------------------------- averaging operator
\* CG1 basis function of vertex i at the quadrature point at vertex x.
BasisValue(i, x) == IF i = x THEN One ELSE Zero

\* Weight of each point of the degree-1 vertex quadrature rule on cell j.
VertexQuadratureWeight(mesh, j) == Norm(mesh.vol[j], mesh.tdim + 1)

\* Mutant of AveragingIntegrand: the factor Constant(tdim+1) is left out.
AveragingIntegrandUnscaled(mesh, i, j, x) ==
    Mul(Reciprocal(Num(mesh.vol[j])), Mul(BasisValue(i, x), One))

\* The integrand (1./K)*Constant(tdim+1)*inner(v, q) for the basis function
\* of vertex i and the indicator q of cell j, at the quadrature point x.
AveragingIntegrand(mesh, i, j, x) ==
    Mul(Mul(Reciprocal(Num(mesh.vol[j])), Num(mesh.tdim + 1)),
        Mul(BasisValue(i, x), One))

\* Entry (i, j) of the assembled matrix, for vertex i on cell j.
AssembledEntry(mesh, i, j) ==
    SumOver([x \in CellVertices(mesh, j) |->
                Mul(AveragingIntegrand(mesh, i, j, x),
                    VertexQuadratureWeight(mesh, j))],
            CellVertices(mesh, j))

\* The sparse matrix: row i stores an entry for each cell of the patch of i.
construct_averaging_operator(V) ==
    LET mesh == V.mesh
    IN [i \in Vertices(mesh) |->
           [j \in Patch(mesh, i) |-> AssembledEntry(mesh, i, j)]]

\* Entry (i, j) of a sparse matrix; a pair that is not stored is zero.
Entry(A, i, j) == IF j \in DOMAIN A[i] THEN A[i][j] ELSE Zero

\* A.mult(x, y): y[i] is the sum over the stored entries of row i.
MatMult(A, x) ==
    [i \in DOMAIN A |->
        SumOver([j \in DOMAIN A[i] |-> Mul(A[i][j], x[j])], DOMAIN A[i])]

\* ---------------------------------------------------------------- engine
\* The form inner(expr[index], q)*dx of one component of the expression.
Form(e, idx) == [k |-> e.k, s |-> e.s, index |-> idx]

\* Mutant of ComponentForms: the tensor's forms in column-major order.
ComponentFormsColumnMajor(e) ==
    LET shape == e.ufl_shape
    IN IF Len(shape) = 0 THEN <<Form(e, <<>>)>>
       ELSE IF Len(shape) = 1 THEN [i \in 1 .. shape[1] |-> Form(e, <<i>>)]
       ELSE [n \in 1 .. (shape[1] * shape[2]) |->
                Form(e, <<((n - 1) % shape[1]) + 1, ((n - 1) \div shape[1]) + 1>>)]

\* The forms of the components: 1 for a scalar, shape[0] for a vector and
\* shape[0]*shape[1] for a tensor (the comprehension's i outer, j inner).
ComponentForms(e) ==
    LET shape == e.ufl_shape
    IN IF Len(shape) = 0 THEN <<Form(e, <<>>)>>
       ELSE IF Len(shape) = 1 THEN [i \in 1 .. shape[1] |-> Form(e, <<i>>)]
       ELSE [n \in 1 .. (shape[1] * shape[2]) |->
                Form(e, <<((n - 1) \div shape[2]) + 1, ((n - 1) % shape[2]) + 1>>)]

\* assemble(inner(expr[index], q)*dx): the integral over each cell.
assemble(form, mesh) ==
    [j \in Cells(mesh) |-> Mul(Num(CellValue(form, form.index, j)), Num(mesh.vol[j]))]

\* assemble(inner(Constant(1), q)*dx): the volume of each cell.
AssembleVolumes(mesh) == [j \in Cells(mesh) |-> Num(mesh.vol[j])]

Backends == {"PETSc", "other"}

\* The pointwise inverse of the patch volumes, by the backend's means.
InvertPatchVolumes(patch_volumes, backend) ==
    [i \in DOMAIN patch_volumes |->
        IF backend = "PETSc" THEN PetscReciprocal(patch_volumes[i])
        ELSE Reciprocal(patch_volumes[i])]

\* ClementInterpolant.__init__ up to the inversion of the patch volumes: the
\* exception it raises, or what it precomputed.
Precompute(e, backend) ==
    LET checked == analyze_expr(e)
    IN IF checked.raised THEN checked
       ELSE LET shaped == analyze_shape(e.ufl_shape)
            IN IF shaped.raised THEN shaped
               ELSE LET found == extract_mesh(checked.value)
                    IN IF found.raised THEN found
                       ELSE LET mesh == found.value
                                V == FunctionSpace(mesh, "CG", 1)
                                A == construct_averaging_operator(V)
                                volumes == AssembleVolumes(mesh)
                                patch_volumes == MatMult(A, volumes)
                            IN Return([shape |-> e.ufl_shape,
                                       V |-> V,
                                       A |-> A,
                                       patch_volumes |->
                                           InvertPatchVolumes(patch_volumes, backend),
                                       forms |-> ComponentForms(e)])

\* The engine ClementInterpolant.__init__ leaves, constructed in the time dt.
ClementInterpolant_init(pre, dt) ==
    [shape |-> pre.shape, V |-> pre.V, A |-> pre.A,
     patch_volumes |-> pre.patch_volumes, forms |-> pre.forms,
     init_time |-> dt, ncalls |-> 0, total_call_time |-> 0]

\* A finite element function: its space and the vectors of its components.
Function(space, comps) == [tag |-> "Function", space |-> space, comps |-> comps]

\* Mutant of Component: the product with patch_volumes is left out.
ComponentUnweighted(engine, projection) == MatMult(engine.A, projection)

\* One component of the interpolant: A.mult(projection, component.vector())
\* followed by component.vector()[:] *= patch_volumes.
Component(engine, projection) ==
    LET summed == MatMult(engine.A, projection)
    IN [i \in DOMAIN summed |-> Mul(summed[i], engine.patch_volumes[i])]

\* The function ClementInterpolant.__call__ returns.
Interpolant(engine) ==
    LET shape == engine.shape
        V == engine.V
        mesh == V.mesh
        components == [n \in 1 .. Len(engine.forms) |->
                          Component(engine, assemble(engine.forms[n], mesh))]
    IN IF Len(shape) = 0
       THEN Function(V, <<components[Len(components)]>>)
       ELSE LET W == IF Len(shape) = 1
                     THEN VectorFunctionSpace(mesh, "CG", 1, shape[1])
                     ELSE TensorFunctionSpace(mesh, "CG", 1, shape)
            IN Function(W, components)

\* Mutant of AfterCall: the call pops the list of forms (forms.pop() in the
\* place of components.pop()).
AfterCallPoppingForms(engine, dt) ==
    [engine EXCEPT !.ncalls = @ + 1, !.total_call_time = @ + dt,
                   !.forms = SubSeq(@, 1, Len(@) - 1)]

\* The engine after ClementInterpolant.__call__ took the time dt.
AfterCall(engine, dt) ==
    [engine EXCEPT !.ncalls = @ + 1, !.total_call_time = @ + dt]

\* What timings() returns on one process, or the exception of its division.
TimingsData(engine) ==
    IF engine.ncalls = 0
    THEN [raised |-> TRUE, exc |-> "ZeroDivisionError", msg |-> "float division by zero"]
    ELSE Return(<<Num(engine.init_time),
                  Norm(engine.total_call_time, engine.ncalls)>>)

\* The value of `ci() if not with_CI else ci(), ci`: the comma binds last,
\* so this is the tuple (ci() if not with_CI else ci(), ci).
FacadeValue(with_CI, uh, engine) ==
    [tag |-> "tuple", items |-> <<(IF ~with_CI THEN uh ELSE uh), engine>>]

\* ---------------------------------------------------------------- inputs
TopologicalDimensions == {1, 2}

\* Every mesh of 1 .. MaxCells cells with cell volumes in 0 .. MaxVol.
Meshes ==
    {Mesh(1, d, vol) : d \in TopologicalDimensions,
                       vol \in UNION {[1 .. n -> 0 .. MaxVol] : n \in 1 .. MaxCells}}

\* The uniform interval mesh of four cells.
UniformIntervalMesh == Mesh(1, 1, <<1, 1, 1, 1>>)

MeshA == Mesh(1, 1, <<1, 2>>)

MeshB == Mesh(2, 2, <<2, 1>>)

\* The fields: constant k, and k + (j-1) on cell j.
FieldParameters == {<<k, s>> : k \in 0 .. MaxK, s \in {0, 1}}

Shapes == UNION {[1 .. r -> 1 .. MaxDim] : r \in 0 .. MaxRank}

GeometricQuantities ==
    {"ufl.MaxCellEdgeLength", "ufl.MaxFacetEdgeLength", "ufl.MinCellEdgeLength",
     "ufl.MinFacetEdgeLength", "ufl.FacetArea", "ufl.FacetNormal", "ufl.CellNormal",
     "ufl.CellVolume", "ufl.Circumradius"}

TerminalUniverse ==
    {Terminal("dolfin.Function", "f", MeshA), Terminal("dolfin.Function", "g", MeshA),
     Terminal("dolfin.Function", "h", MeshB), Terminal("dolfin.Constant", "c", NoMesh),
     Terminal("ufl.SpatialCoordinate", "x", NoMesh),
     Terminal("dolfin.Argument", "v", MeshA), Terminal("ufl.Argument", "w", NoMesh)}
    \cup {Terminal(kind, "geometry", NoMesh) : kind \in GeometricQuantities}

LeafSequences == UNION {[1 .. n -> TerminalUniverse] : n \in 1 .. MaxLeaves}

\* Scalar fields of one function over every mesh.
ScalarExpressions ==
    {Expression(FALSE, <<>>, <<Terminal("dolfin.Function", "f", m)>>, p[1], p[2]) :
        m \in Meshes \cup {UniformIntervalMesh}, p \in FieldParameters}

\* Fields of every shape over two meshes.
ShapedExpressions ==
    {Expression(FALSE, shape, <<Terminal("dolfin.Function", "f", m)>>, p[1], p[2]) :
        shape \in Shapes, m \in {MeshA, MeshB}, p \in FieldParameters}

\* Scalar expressions of every combination of terminals.
TerminalExpressions ==
    {Expression(FALSE, <<>>, leaves, 1, 0) : leaves \in LeafSequences}

\* Integrated forms.
FormExpressions ==
    {Expression(TRUE, <<>>, leaves, 1, 0) :
        leaves \in {<<Terminal("dolfin.Function", "f", MeshA)>>,
                    <<Terminal("dolfin.Function", "f", MeshA),
                      Terminal("dolfin.Argument", "v", MeshA)>>}}

Expressions ==
    ScalarExpressions \cup ShapedExpressions \cup TerminalExpressions \cup FormExpressions

\* --------------------------------------------------------- state machine
NoEngine == [built |-> FALSE]

Outcome(op, r) ==
    IF r.raised THEN [op |-> op, raised |-> TRUE, exc |-> r.exc, msg |-> r.msg]
    ELSE [op |-> op, raised |-> FALSE, value |-> r.value]

Init ==
    /\ expr \in Expressions
    /\ pc = "start"
    /\ ci = NoEngine
    /\ ret = [op |-> "none", raised |-> FALSE]

\* The workers, applied to the caller's expression.
AnalyzeExpr ==
    /\ pc = "start"
    /\ ret' = Outcome("_analyze_expr", analyze_expr(expr))
    /\ UNCHANGED <<expr, pc, ci>>

AnalyzeShape ==
    /\ pc = "start"
    /\ ~expr.is_form
    /\ ret' = Outcome("_analyze_shape", analyze_shape(expr.ufl_shape))
    /\ UNCHANGED <<expr, pc, ci>>

ExtractMesh ==
    /\ pc = "start"
    /\ ret' = Outcome("_extract_mesh", extract_mesh(traverse_unique_terminals(expr)))
    /\ UNCHANGED <<expr, pc, ci>>

\* ci = ClementInterpolant(expr)
Construct ==
    /\ pc = "start"
    /\ \E backend \in Backends : \E pre \in {Precompute(expr, backend)} :
          IF pre.raised
          THEN /\ pc' = "failed"
               /\ ci' = ci
               /\ ret' = Outcome("__init__", pre)
          ELSE /\ pc' = "constructed"
               /\ \E dt \in Durations : ci' = ClementInterpolant_init(pre.value, dt)
               /\ ret' = [op |-> "__init__", raised |-> FALSE]
    /\ UNCHANGED expr

\* uh = ci()
Call ==
    /\ pc = "constructed"
    /\ ci.ncalls < MaxCalls
    /\ \E uh \in {Interpolant(ci)} : \E dt \in Durations :
          /\ ci' = AfterCall(ci, dt)
          /\ ret' = [op |-> "__call__", raised |-> FALSE, value |-> uh]
    /\ UNCHANGED <<expr, pc>>

\* ci.timings()
Timings ==
    /\ pc = "constructed"
    /\ ret' = Outcome("timings", TimingsData(ci))
    /\ UNCHANGED <<expr, pc, ci>>

\* clement_interpolate(expr, with_CI)
ClementInterpolate ==
    /\ pc = "start"
    /\ \E backend \in Backends : \E pre \in {Precompute(expr, backend)} :
          IF pre.raised
          THEN /\ pc' = "failed"
               /\ ci' = ci
               /\ \E with_CI \in BOOLEAN :
                     ret' = [op |-> "clement_interpolate", with_CI |-> with_CI,
                             raised |-> TRUE, exc |-> pre.exc, msg |-> pre.msg]
          ELSE /\ pc' = "constructed"
               /\ \E uh \in {Interpolant(pre.value)} :
                  \E with_CI \in BOOLEAN, dt0 \in Durations, dt \in Durations :
                     \E engine \in {AfterCall(ClementInterpolant_init(pre.value, dt0), dt)} :
                        /\ ci' = engine
                        /\ ret' = [op |-> "clement_interpolate", with_CI |-> with_CI,
                                   raised |-> FALSE,
                                   value |-> FacadeValue(with_CI, uh, engine)]
    /\ UNCHANGED expr

Next ==
    \/ AnalyzeExpr
    \/ AnalyzeShape
    \/ ExtractMesh
    \/ Construct
    \/ Call
    \/ Timings
    \/ ClementInterpolate

Spec == Init /\ [][Next]_vars

\* ---------------------------------------------------------------- claims
\* The mesh of the engine, and quantities of it computed independently of
\* the averaging operator.
EngineMesh == ci.V.mesh

RECURSIVE IntSum(_, _)
IntSum(f, S) ==
    IF S = {} THEN 0
    ELSE LET m == CHOOSE j \in S : TRUE IN f[m] + IntSum(f, S \ {m})

\* Sum of the volumes of the cells of the patch of vertex i.
PatchVolume(mesh, i) == IntSum([j \in Patch(mesh, i) |-> mesh.vol[j]], Patch(mesh, i))

\* Sum over the patch of vertex i of the integrals of the component of form.
PatchIntegral(form, mesh, i) ==
    IntSum([j \in Patch(mesh, i) |-> CellValue(form, form.index, j) * mesh.vol[j]],
           Patch(mesh, i))

\* No cell of the patch of vertex i is degenerate.
PatchIsRegular(mesh, i) == \A j \in Patch(mesh, i) : mesh.vol[j] > 0

\* C1 (as claimed): clement_interpolate returns the field alone when with_CI
\* is False and the pair (field, engine) only when with_CI is True.
C1_FacadeReturn ==
    (ret.op = "clement_interpolate" /\ ~ret.raised) =>
        IF ret.with_CI
        THEN ret.value.tag = "tuple" /\ Len(ret.value.items) = 2
        ELSE ret.value.tag = "Function"

C4_SingularPatchRejected ==
    pc = "constructed" =>
        /\ \A i \in Vertices(EngineMesh) : PatchVolume(EngineMesh, i) # 0
        /\ \A i \in Vertices(EngineMesh) : IsFinite(ci.patch_volumes[i])

\* The ids of the meshes of the terminals that expose a function space.
ExposedMeshIds(terminals) ==
    {terminals[n].mesh.id : n \in {m \in 1 .. Len(terminals) : HasFunctionSpace(terminals[m])}}

\* C5: _extract_mesh(terminals) returns a mesh iff the terminals exposing a
\* function space share exactly one mesh id, and then the mesh of that id; it
\* raises when none exposes a mesh or two ids occur; terminals exposing no
\* mesh do not affect the outcome.
C5_ExtractMesh ==
    ret.op = "_extract_mesh" =>
        LET terminals == traverse_unique_terminals(expr)
            ids == ExposedMeshIds(terminals)
        IN /\ ~ret.raised <=> Cardinality(ids) = 1
           /\ ~ret.raised => ids = {ret.value.id}
           /\ ~ret.raised =>
                 \E n \in 1 .. Len(terminals) :
                    HasFunctionSpace(terminals[n]) /\ terminals[n].mesh = ret.value
           /\ ret.raised => ret.exc = "ValueError"
           /\ ret = Outcome("_extract_mesh",
                            extract_mesh(SelectSeq(terminals, HasFunctionSpace)))

\* C5 witness: a mesh was extracted from terminals one of which exposes none.
C5_Witness ==
    /\ ret.op = "_extract_mesh"
    /\ ~ret.raised
    /\ ret.value = MeshA
    /\ \E n \in 1 .. Len(expr.leaves) : ~HasFunctionSpace(expr.leaves[n])
    /\ \E n \in 1 .. Len(expr.leaves) : HasFunctionSpace(expr.leaves[n])

\* The black-listed kinds as the claim lists them.
ClaimedBlackKinds ==
    {"ufl.Argument", "ufl.MaxCellEdgeLength", "ufl.MinCellEdgeLength",
     "ufl.MaxFacetEdgeLength", "ufl.MinFacetEdgeLength", "ufl.FacetArea",
     "ufl.FacetNormal", "ufl.CellNormal", "ufl.CellVolume"}

IsClaimedBlack(t) == t.kind \in ClaimedBlackKinds \/ Superclass(t.kind) \in ClaimedBlackKinds

\* C6: _analyze_expr(expr) raises iff expr is a form or one of its terminals
\* is an instance of a black-listed kind; otherwise it returns the list of
\* the unique terminals of expr; expr is not modified.
C6_AnalyzeExpr ==
    [][ret'.op = "_analyze_expr" =>
          /\ ret'.raised <=>
                (expr.is_form
                 \/ \E n \in 1 .. Len(expr.leaves) : IsClaimedBlack(expr.leaves[n]))
          /\ ret'.raised => ret'.exc = "ValueError"
          /\ ~ret'.raised =>
                /\ {ret'.value[n] : n \in 1 .. Len(ret'.value)}
                      = {expr.leaves[n] : n \in 1 .. Len(expr.leaves)}
                /\ \A m, n \in 1 .. Len(ret'.value) :
                      ret'.value[m] = ret'.value[n] => m = n
          /\ expr' = expr]_vars

\* C6 witness: the same terminal occurs twice in expr and is returned once.
C6_Witness ==
    /\ ret.op = "_analyze_expr"
    /\ ~ret.raised
    /\ Len(expr.leaves) = 2
    /\ Len(ret.value) = 1

\* The shapes the claim says are accepted.
ShapeSupported(shape) == Len(shape) <= 2 /\ (Len(shape) = 2 => shape[1] = shape[2])

\* C7: _analyze_shape accepts exactly the shapes of rank <= 2 that are square
\* when of rank 2; any other shape makes it raise, and construction then
\* produces no engine.
C7_AnalyzeShape ==
    /\ ret.op = "_analyze_shape" => (ret.raised <=> ~ShapeSupported(expr.ufl_shape))
    /\ (pc # "start" /\ ~ShapeSupported(expr.ufl_shape)) =>
          (pc = "failed" /\ ci = NoEngine /\ ret.raised /\ ret.exc = "ValueError")
    /\ (pc = "failed" /\ ret.msg = "Interpolating Expr does not result rank-0, 1, 2 function")
          => ~ShapeSupported(expr.ufl_shape)

\* C7 witness: construction with a non-square rank-2 shape failed.
C7_Witness ==
    /\ pc = "failed"
    /\ ci = NoEngine
    /\ expr.ufl_shape = <<1, 2>>
    /\ ret.op = "__init__"
    /\ ret.msg = "Interpolating Expr does not result rank-0, 1, 2 function"

\* Number of components of a supported shape.
ComponentCount(shape) ==
    IF Len(shape) = 0 THEN 1
    ELSE IF Len(shape) = 1 THEN shape[1]
    ELSE shape[1] * shape[2]

\* C8: the engine holds 1, n or n*n forms for rank 0, 1 or 2, in row-major
\* order; __call__ returns a degree-1 field of the expression's shape whose
\* k-th component is the averaged k-th form.
C8_RankDispatch ==
    pc = "constructed" =>
        /\ Len(ci.forms) = ComponentCount(ci.shape)
        /\ ci.shape = expr.ufl_shape
        /\ Len(ci.shape) = 0 => ci.forms[1].index = <<>>
        /\ Len(ci.shape) = 1 => \A i \in 1 .. ci.shape[1] : ci.forms[i].index = <<i>>
        /\ Len(ci.shape) = 2 =>
              \A i \in 1 .. ci.shape[1] : \A j \in 1 .. ci.shape[2] :
                  ci.forms[(i - 1) * ci.shape[2] + j].index = <<i, j>>
        /\ ret.op = "__call__" =>
              /\ ret.value.space.shape = ci.shape
              /\ ret.value.space.family = "CG" /\ ret.value.space.degree = 1
              /\ ret.value.space.mesh = EngineMesh
              /\ Len(ret.value.comps) = ComponentCount(ci.shape)
              /\ \A n \in 1 .. Len(ret.value.comps) : \A i \in Vertices(EngineMesh) :
                    ret.value.comps[n][i] =
                        Mul(MatMult(ci.A, assemble(ci.forms[n], EngineMesh))[i],
                            ci.patch_volumes[i])

\* C8 witness: a (2,2) tensor expression was interpolated into 4 components.
C8_Witness ==
    /\ ret.op = "__call__"
    /\ ci.shape = <<2, 2>>
    /\ Len(ret.value.comps) = 4
    /\ ci.forms[2].index = <<1, 2>>

\* C9 (as claimed): timings() returns (construction_time, mean_call_time) in
\* every engine state reachable after construction.
C9_TimingsReturnsPair ==
    ret.op = "timings" =>
        /\ ~ret.raised
        /\ ret.value = <<Num(ci.init_time), Norm(ci.total_call_time, ci.ncalls)>>

\* The setup state fixed at construction.
Setup(engine) ==
    <<engine.shape, engine.V, engine.A, engine.patch_volumes, engine.forms>>

\* C10: invocations of __call__ and timings() leave the setup state (shape,
\* V, A, patch_volumes, forms) as construction made it; an invocation of
\* __call__ only adds 1 to the call counter and the elapsed time to the
\* accumulated call time; timings() changes nothing.
C10_Frame ==
    [][pc = "constructed" =>
          /\ Setup(ci') = Setup(ci)
          /\ ci'.init_time = ci.init_time
          /\ ret'.op = "__call__" =>
                /\ ci'.ncalls = ci.ncalls + 1
                /\ ci'.total_call_time - ci.total_call_time \in Durations
          /\ ret'.op = "timings" => ci' = ci
          /\ ret'.op \in {"__call__", "timings"}]_vars

\* C10 witness: an engine invoked twice and asked for its timings.
C10_Witness ==
    /\ pc = "constructed"
    /\ ci.ncalls = 2
    /\ ret.op = "timings"
    /\ ~ret.raised

====
